---- MODULE Spec2Model ----
(***************************************************************************)
(* Model of terminal-tax (src/src/app.ts): the TaxService (bracket table,  *)
(* calculateTax, calculateResult, validateYear, validateIncome) and the    *)
(* TaxCalculator driver (getValidYear, getValidIncome, run).               *)
(*                                                                         *)
(* JavaScript numbers are IEEE-754 binary64 values.  They are modelled     *)
(* exactly: a finite number is sign * m * 2^e with m a 53-bit significand  *)
(* (or m = 0), kept as an arbitrary-precision natural number because the   *)
(* model checker's integers are 32 bits wide.  Every arithmetic operator   *)
(* of the source (+, -, *, /, Math.round, Number(string)) is computed on   *)
(* the exact value and then rounded to nearest, ties to even, as the       *)
(* language prescribes.  All values the program handles here lie between   *)
(* 2^-60 and 2^60 in magnitude, so exponent overflow and subnormals do not *)
(* arise and the exponent is left unbounded.                               *)
(*                                                                         *)
(* Strings are sequences of one-character strings.                         *)
(***************************************************************************)
EXTENDS Integers, Sequences, FiniteSets, TLC

(***************************************************************************)
(* Arbitrary-precision naturals: little-endian sequences of limbs          *)
(* 0..Base-1 without a most-significant zero limb; zero is << >>.          *)
(***************************************************************************)
LimbBits == 15

Base == 32768

Pow2(k) == 2 ^ k

RECURSIVE BigNorm(_)
BigNorm(a) ==
  IF a = << >> THEN << >>
  ELSE IF a[Len(a)] = 0 THEN BigNorm(SubSeq(a, 1, Len(a) - 1))
  ELSE a

RECURSIVE BigFromInt(_)
BigFromInt(n) ==
  IF n = 0 THEN << >> ELSE <<n % Base>> \o BigFromInt(n \div Base)

BigLimb(a, i) == IF i <= Len(a) THEN a[i] ELSE 0

RECURSIVE BigAddC(_, _, _, _)
BigAddC(a, b, i, c) ==
  IF i > Len(a) /\ i > Len(b)
  THEN (IF c = 0 THEN << >> ELSE <<c>>)
  ELSE LET t == BigLimb(a, i) + BigLimb(b, i) + c
       IN  <<t % Base>> \o BigAddC(a, b, i + 1, t \div Base)

BigAdd(a, b) == BigAddC(a, b, 1, 0)

RECURSIVE BigSubC(_, _, _, _)
BigSubC(a, b, i, c) ==
  IF i > Len(a) THEN << >>
  ELSE LET t == a[i] - BigLimb(b, i) - c
       IN  IF t < 0 THEN <<t + Base>> \o BigSubC(a, b, i + 1, 1)
           ELSE <<t>> \o BigSubC(a, b, i + 1, 0)

\* a - b, for a >= b
BigSub(a, b) == BigNorm(BigSubC(a, b, 1, 0))

RECURSIVE BigCmpFrom(_, _, _)
BigCmpFrom(a, b, i) ==
  IF i = 0 THEN 0
  ELSE IF a[i] < b[i] THEN -1
  ELSE IF a[i] > b[i] THEN 1
  ELSE BigCmpFrom(a, b, i - 1)

\* -1, 0, 1 as a < b, a = b, a > b
BigCmp(a, b) ==
  IF Len(a) < Len(b) THEN -1
  ELSE IF Len(a) > Len(b) THEN 1
  ELSE BigCmpFrom(a, b, Len(a))

RECURSIVE BigMulSmallC(_, _, _, _)
BigMulSmallC(a, k, i, c) ==
  IF i > Len(a)
  THEN (IF c = 0 THEN << >> ELSE <<c>>)
  ELSE LET t == a[i] * k + c
       IN  <<t % Base>> \o BigMulSmallC(a, k, i + 1, t \div Base)

\* a * k for 0 <= k < Base
BigMulSmall(a, k) == IF k = 0 THEN << >> ELSE BigMulSmallC(a, k, 1, 0)

BigZeros(n) == [i \in 1..n |-> 0]

RECURSIVE BigMulFrom(_, _, _)
BigMulFrom(a, b, j) ==
  IF j > Len(b) THEN << >>
  ELSE LET p == BigMulSmall(a, b[j])
           rest == BigMulFrom(a, b, j + 1)
       IN  BigAdd(IF p = << >> THEN << >> ELSE BigZeros(j - 1) \o p, rest)

BigMul(a, b) == IF a = << >> \/ b = << >> THEN << >> ELSE BigMulFrom(a, b, 1)

\* a * 2^k
BigShl(a, k) ==
  IF a = << >> THEN << >>
  ELSE BigZeros(k \div LimbBits) \o BigMulSmall(a, Pow2(k % LimbBits))

\* floor(a / 2^k)
BigShr(a, k) ==
  LET q == k \div LimbBits
      r == k % LimbBits
  IN  IF q >= Len(a) THEN << >>
      ELSE LET d == SubSeq(a, q + 1, Len(a))
           IN  BigNorm([i \in 1..Len(d) |->
                          (d[i] \div Pow2(r))
                          + (BigLimb(d, i + 1) % Pow2(r)) * Pow2(LimbBits - r)])

RECURSIVE BitLenSmall(_)
BitLenSmall(n) == IF n = 0 THEN 0 ELSE 1 + BitLenSmall(n \div 2)

BigBitLen(a) ==
  IF a = << >> THEN 0
  ELSE LimbBits * (Len(a) - 1) + BitLenSmall(a[Len(a)])

\* bit i of a, the least significant bit being bit 0
BigBit(a, i) == (BigLimb(a, i \div LimbBits + 1) \div Pow2(i % LimbBits)) % 2

\* a mod 2^k = 0
BigLowZero(a, k) == BigShl(BigShr(a, k), k) = a

BigOne == <<1>>

\* A part of the quotient of n by d, for n >= d > 0: at least 1 and never
\* too high, estimated from the leading limbs of n and d.
BigDivEstimate(n, d) ==
  LET ln == Len(n)
      ld == Len(d)
      dt == d[ld] + 1
      est == IF ln > ld THEN (n[ln] * Base + n[ln - 1]) \div dt ELSE n[ln] \div dt
  IN  IF ln > ld
      THEN BigZeros(ln - ld - 1) \o BigFromInt(est)
      ELSE BigFromInt(IF est = 0 THEN 1 ELSE est)

\* One step of long division: qh more in the quotient, qh * d less in the
\* remainder.
BigDivStep(n, d, q0, qh) == [q |-> BigAdd(q0, qh), r |-> BigSub(n, BigMul(qh, d))]

\* [q, r] with acc.q * d + acc.r = q * d + r and r < d, for d > 0
RECURSIVE BigDivLoop(_, _)
BigDivLoop(acc, d) ==
  IF BigCmp(acc.r, d) < 0 THEN acc
  ELSE BigDivLoop(BigDivStep(acc.r, d, acc.q, BigDivEstimate(acc.r, d)), d)

\* BigDivMod for a divisor whose leading limb is full once shifted by sh bits
BigDivShifted(n, d, sh) ==
  [BigDivLoop([q |-> << >>, r |-> BigShl(n, sh)], BigShl(d, sh))
     EXCEPT !.r = BigShr(@, sh)]

\* floor(n / d) and n mod d, for d > 0
BigDivMod(n, d) ==
  BigDivShifted(n, d, (LimbBits - (BigBitLen(d) % LimbBits)) % LimbBits)

(***************************************************************************)
(* IEEE-754 binary64 numbers.  A finite number is [s, m, e] with value     *)
(* s * m * 2^e, s in {1, -1}, and either m = << >> (zero, e = 0) or m of   *)
(* exactly Precision bits, so equal numbers are equal records (apart from  *)
(* the two zeros).  NaN has s = 0; an infinity has m = << >> and e = 1.    *)
(***************************************************************************)
Precision == 53

NaN == [s |-> 0, m |-> << >>, e |-> 0]

Infinity(s) == [s |-> s, m |-> << >>, e |-> 1]

Zero(s) == [s |-> s, m |-> << >>, e |-> 0]

IsNaN(x) == x.s = 0

IsInf(x) == x.s # 0 /\ x.m = << >> /\ x.e = 1

IsZero(x) == x.s # 0 /\ x.m = << >> /\ x.e = 0

\* q, the kept bits, rounded to nearest: up when the first discarded bit
\* (half) is set and a later discarded bit (sticky) is set or q is odd
RoundNearestEven(q, half, sticky) ==
  IF half /\ (sticky \/ BigBit(q, 0) = 1) THEN BigAdd(q, BigOne) ELSE q

\* [s, q, E] for q of Precision bits, or of one bit more after a carry
Renormalise(s, q, E) ==
  IF BigBitLen(q) > Precision
  THEN [s |-> s, m |-> BigShr(q, 1), e |-> E + 1]
  ELSE [s |-> s, m |-> q, e |-> E]

\* RoundToDouble for M of L > 0 bits
RoundBits(s, M, E, L) ==
  IF L <= Precision
  THEN [s |-> s, m |-> BigShl(M, Precision - L), e |-> E - (Precision - L)]
  ELSE Renormalise(s,
                   RoundNearestEven(BigShr(M, L - Precision),
                                    BigBit(M, L - Precision - 1) = 1,
                                    ~BigLowZero(M, L - Precision - 1)),
                   E + (L - Precision))

\* the binary64 number nearest s * M * 2^E, ties to the even significand
RoundToDouble(s, M, E) ==
  IF M = << >> THEN Zero(s) ELSE RoundBits(s, M, E, BigBitLen(M))

FromBig(s, N) == RoundToDouble(s, N, 0)

FromInt(n) == FromBig(IF n < 0 THEN -1 ELSE 1, BigFromInt(IF n < 0 THEN -n ELSE n))

\* twice the quotient, plus one when the division left a remainder
BigStickyQuotient(res) ==
  BigAdd(BigShl(res.q, 1), IF res.r = << >> THEN << >> ELSE BigOne)

\* FromRatio with N scaled by 2^k
FromScaledRatio(s, N, D, E, k) ==
  RoundToDouble(s, BigStickyQuotient(BigDivMod(BigShl(N, k), D)), E - k - 1)

\* the binary64 number nearest s * N / D * 2^E, for naturals N, D > 0
FromRatio(s, N, D, E) ==
  LET need == Precision + 3 + BigBitLen(D) - BigBitLen(N)
  IN  FromScaledRatio(s, N, D, E, IF need > 0 THEN need ELSE 0)

\* -1, 0, 1 as |x| < |y|, |x| = |y|, |x| > |y|, for finite x, y
MagCmp(x, y) ==
  IF x.m = << >> /\ y.m = << >> THEN 0
  ELSE IF x.m = << >> THEN -1
  ELSE IF y.m = << >> THEN 1
  ELSE IF x.e < y.e THEN -1
  ELSE IF x.e > y.e THEN 1
  ELSE BigCmp(x.m, y.m)

\* x < y
FLt(x, y) ==
  IF IsNaN(x) \/ IsNaN(y) THEN FALSE
  ELSE IF IsInf(x) \/ IsInf(y)
  THEN (IF IsInf(x) /\ IsInf(y) THEN x.s < y.s
        ELSE IF IsInf(x) THEN x.s < 0 ELSE y.s > 0)
  ELSE IF IsZero(x) /\ IsZero(y) THEN FALSE
  ELSE IF IsZero(x) THEN y.s > 0
  ELSE IF IsZero(y) THEN x.s < 0
  ELSE IF x.s # y.s THEN x.s < y.s
  ELSE IF x.s > 0 THEN MagCmp(x, y) < 0
  ELSE MagCmp(x, y) > 0

\* x > y
FGt(x, y) == FLt(y, x)

\* x === y on numbers: NaN differs from everything, the two zeros are equal
FEq(x, y) ==
  /\ ~IsNaN(x)
  /\ ~IsNaN(y)
  /\ \/ x = y
     \/ IsZero(x) /\ IsZero(y)

FNeg(x) == IF IsNaN(x) THEN NaN ELSE [x EXCEPT !.s = -x.s]

\* x + y
FAdd(x, y) ==
  IF IsNaN(x) \/ IsNaN(y) THEN NaN
  ELSE IF IsInf(x) \/ IsInf(y)
  THEN (IF IsInf(x) /\ IsInf(y) /\ x.s # y.s THEN NaN
        ELSE IF IsInf(x) THEN x ELSE y)
  ELSE IF IsZero(x) /\ IsZero(y) THEN Zero(IF x.s < 0 /\ y.s < 0 THEN -1 ELSE 1)
  ELSE IF IsZero(x) THEN y
  ELSE IF IsZero(y) THEN x
  ELSE LET E == IF x.e < y.e THEN x.e ELSE y.e
           X == BigShl(x.m, x.e - E)
           Y == BigShl(y.m, y.e - E)
           c == BigCmp(X, Y)
       IN  IF x.s # y.s /\ c = 0 THEN Zero(1)
           ELSE RoundToDouble(IF x.s = y.s \/ c > 0 THEN x.s ELSE y.s,
                              IF x.s = y.s THEN BigAdd(X, Y)
                              ELSE IF c > 0 THEN BigSub(X, Y)
                              ELSE BigSub(Y, X),
                              E)

\* x - y
FSub(x, y) == FAdd(x, FNeg(y))

\* x * y
FMul(x, y) ==
  IF IsNaN(x) \/ IsNaN(y) THEN NaN
  ELSE IF IsInf(x) \/ IsInf(y)
  THEN (IF IsZero(x) \/ IsZero(y) THEN NaN ELSE Infinity(x.s * y.s))
  ELSE RoundToDouble(x.s * y.s, BigMul(x.m, y.m), x.e + y.e)

\* x / y
FDiv(x, y) ==
  IF IsNaN(x) \/ IsNaN(y) THEN NaN
  ELSE IF IsInf(x) THEN (IF IsInf(y) THEN NaN ELSE Infinity(x.s * y.s))
  ELSE IF IsInf(y) THEN Zero(x.s * y.s)
  ELSE IF IsZero(y) THEN (IF IsZero(x) THEN NaN ELSE Infinity(x.s * y.s))
  ELSE IF IsZero(x) THEN Zero(x.s * y.s)
  ELSE FromRatio(x.s * y.s, x.m, y.m, x.e - y.e)

\* Math.round(x): the integer nearest x, a tie going to the larger integer
MathRound(x) ==
  IF IsNaN(x) \/ IsInf(x) \/ IsZero(x) \/ x.e >= 0 THEN x
  ELSE LET k == 0 - x.e
           h == BigShl(BigOne, k - 1)
       IN  IF x.s < 0 /\ BigCmp(x.m, h) <= 0 THEN Zero(-1)
           ELSE FromBig(x.s,
                        IF x.s > 0 THEN BigShr(BigAdd(x.m, h), k)
                        ELSE LET t == BigSub(x.m, h)
                                 n == BigShr(t, k)
                             IN  IF BigLowZero(t, k) THEN n ELSE BigAdd(n, BigOne))

\* 10^k, by repeated squaring
RECURSIVE BigPow10(_)
BigPow10(k) ==
  IF k = 0 THEN BigOne
  ELSE LET h == BigPow10(k \div 2)
           sq == BigMul(h, h)
       IN  IF k % 2 = 0 THEN sq ELSE BigMulSmall(sq, 10)

\* the value of a numeric literal of the source: n / 10^k for integers n >= 0, k >= 0
Literal(n, k) ==
  IF k = 0 THEN FromInt(n) ELSE FromRatio(1, BigFromInt(n), BigPow10(k), 0)

(***************************************************************************)
(* String helpers: String.prototype.trim, Array.prototype.join,            *)
(* Array.prototype.includes and template literals (concatenation).         *)
(***************************************************************************)
WhiteSpace == {" ", "\t", "\n", "\r"}

RECURSIVE TrimStart(_)
TrimStart(str) ==
  IF str # << >> /\ str[1] \in WhiteSpace THEN TrimStart(Tail(str)) ELSE str

RECURSIVE TrimEnd(_)
TrimEnd(str) ==
  IF str # << >> /\ str[Len(str)] \in WhiteSpace
  THEN TrimEnd(SubSeq(str, 1, Len(str) - 1))
  ELSE str

Trim(str) == TrimEnd(TrimStart(str))

RECURSIVE Join(_, _)
Join(strs, sep) ==
  IF strs = << >> THEN << >>
  ELSE IF Len(strs) = 1 THEN strs[1]
  ELSE strs[1] \o sep \o Join(Tail(strs), sep)

Includes(strs, str) == \E i \in 1..Len(strs) : strs[i] = str

DecimalDigits == {"0", "1", "2", "3", "4", "5", "6", "7", "8", "9"}

(***************************************************************************)
(* The bracket table.                                                      *)
(***************************************************************************)
Y2023_2024 == <<"2", "0", "2", "3", "-", "2", "0", "2", "4">>

Y2024_2025 == <<"2", "0", "2", "4", "-", "2", "0", "2", "5">>

\* BracketRows with the 2023-2024 tax-free threshold mistyped as 18_000
BracketRows_LowThreshold ==
  [year \in {Y2023_2024, Y2024_2025} |->
     IF year = Y2023_2024
     THEN << [min |-> 0, max |-> 18000, rate |-> <<0, 0>>, base |-> 0],
             [min |-> 18000, max |-> 45000, rate |-> <<19, 2>>, base |-> 0],
             [min |-> 45000, max |-> 120000, rate |-> <<325, 3>>, base |-> 5092],
             [min |-> 120000, max |-> 180000, rate |-> <<37, 2>>, base |-> 29467],
             [min |-> 180000, max |-> -1, rate |-> <<45, 2>>, base |-> 51667] >>
     ELSE << [min |-> 0, max |-> 18200, rate |-> <<0, 0>>, base |-> 0],
             [min |-> 18200, max |-> 45000, rate |-> <<16, 2>>, base |-> 0],
             [min |-> 45000, max |-> 135000, rate |-> <<3, 1>>, base |-> 4288],
             [min |-> 135000, max |-> 190000, rate |-> <<37, 2>>, base |-> 31388],
             [min |-> 190000, max |-> -1, rate |-> <<45, 2>>, base |-> 51838] >>]

\* The rows as the source writes them: min, max and base in whole dollars
\* (max = -1 for Number.POSITIVE_INFINITY), rate as rate[1] / 10^rate[2].
BracketRows ==
  [year \in {Y2023_2024, Y2024_2025} |->
     IF year = Y2023_2024
     THEN << [min |-> 0, max |-> 18200, rate |-> <<0, 0>>, base |-> 0],
             [min |-> 18200, max |-> 45000, rate |-> <<19, 2>>, base |-> 0],
             [min |-> 45000, max |-> 120000, rate |-> <<325, 3>>, base |-> 5092],
             [min |-> 120000, max |-> 180000, rate |-> <<37, 2>>, base |-> 29467],
             [min |-> 180000, max |-> -1, rate |-> <<45, 2>>, base |-> 51667] >>
     ELSE << [min |-> 0, max |-> 18200, rate |-> <<0, 0>>, base |-> 0],
             [min |-> 18200, max |-> 45000, rate |-> <<16, 2>>, base |-> 0],
             [min |-> 45000, max |-> 135000, rate |-> <<3, 1>>, base |-> 4288],
             [min |-> 135000, max |-> 190000, rate |-> <<37, 2>>, base |-> 31388],
             [min |-> 190000, max |-> -1, rate |-> <<45, 2>>, base |-> 51838] >>]

\* a row as the TaxBracket of numbers it denotes
TaxBracket(row) ==
  [min |-> Literal(row.min, 0),
   max |-> IF row.max < 0 THEN Infinity(1) ELSE Literal(row.max, 0),
   rate |-> Literal(row.rate[1], row.rate[2]),
   base |-> Literal(row.base, 0)]

TAX_BRACKETS ==
  [year \in DOMAIN BracketRows |->
     [i \in 1..Len(BracketRows[year]) |-> TaxBracket(BracketRows[year][i])]]

\* Object.keys(TAX_BRACKETS): the own keys in insertion order
ObjectKeys == <<Y2023_2024, Y2024_2025>>

\* the property names every object inherits from Object.prototype
ObjectPrototypeKeys ==
  { <<"c", "o", "n", "s", "t", "r", "u", "c", "t", "o", "r">>, <<"t", "o", "S", "t", "r", "i", "n", "g">>, <<"t", "o", "L", "o", "c", "a", "l", "e", "S", "t", "r", "i", "n", "g">>, <<"v", "a", "l", "u", "e", "O", "f">>,
    <<"h", "a", "s", "O", "w", "n", "P", "r", "o", "p", "e", "r", "t", "y">>, <<"i", "s", "P", "r", "o", "t", "o", "t", "y", "p", "e", "O", "f">>, <<"p", "r", "o", "p", "e", "r", "t", "y", "I", "s", "E", "n", "u", "m", "e", "r", "a", "b", "l", "e">>,
    <<"_", "_", "p", "r", "o", "t", "o", "_", "_">>, <<"_", "_", "d", "e", "f", "i", "n", "e", "G", "e", "t", "t", "e", "r", "_", "_">>, <<"_", "_", "d", "e", "f", "i", "n", "e", "S", "e", "t", "t", "e", "r", "_", "_">>,
    <<"_", "_", "l", "o", "o", "k", "u", "p", "G", "e", "t", "t", "e", "r", "_", "_">>, <<"_", "_", "l", "o", "o", "k", "u", "p", "S", "e", "t", "t", "e", "r", "_", "_">> }

\* TAX_BRACKETS[year]: the own property, else the inherited one, else undefined
PropertyLookup(year) ==
  IF Includes(ObjectKeys, year) THEN [kind |-> "own", brackets |-> TAX_BRACKETS[year]]
  ELSE IF year \in ObjectPrototypeKeys THEN [kind |-> "inherited"]
  ELSE [kind |-> "undefined"]

(***************************************************************************)
(* TaxService.  A call either returns a value or throws.                   *)
(***************************************************************************)
Return(v) == [kind |-> "return", value |-> v]

Throw(name, message) == [kind |-> "throw", name |-> name, message |-> message]

getAvailableYears == ObjectKeys

\* brackets.findLast((b) => income > b.min): the index found, 0 for undefined
RECURSIVE FindLastFrom(_, _, _)
FindLastFrom(brackets, income, i) ==
  IF i = 0 THEN 0
  ELSE IF FGt(income, brackets[i].min) THEN i
  ELSE FindLastFrom(brackets, income, i - 1)

\* FindLast with the lower bound inclusive: income >= b.min
FindLast_Inclusive(brackets, income) ==
  LET at == {i \in 1..Len(brackets) : ~FLt(income, brackets[i].min)}
  IN  IF at = {} THEN 0 ELSE CHOOSE i \in at : \A j \in at : j <= i


FindLast(brackets, income) == FindLastFrom(brackets, income, Len(brackets))

\* Math.round(tax * 100) / 100
RoundToCents(tax) == FDiv(MathRound(FMul(tax, FromInt(100))), FromInt(100))

\* BracketTax with the rate applied to the whole income
BracketTax_WholeIncome(bracket, income) ==
  FAdd(bracket.base, FMul(income, bracket.rate))


\* bracket.base + (income - bracket.min) * bracket.rate
BracketTax(bracket, income) ==
  FAdd(bracket.base, FMul(FSub(income, bracket.min), bracket.rate))

\* TaxInBracket with the bracket's base left out of the sum
TaxInBracket_RateOnly(brackets, i, income) ==
  IF i = 0 THEN Return(Zero(1))
  ELSE Return(RoundToCents(FMul(FSub(income, brackets[i].min), brackets[i].rate)))

\* calculateTax once findLast has answered: i is the index of the bracket
\* found, 0 for undefined
TaxInBracket(brackets, i, income) ==
  IF i = 0 THEN Return(Zero(1))
  ELSE Return(RoundToCents(BracketTax(brackets[i], income)))

\* calculateTax once TAX_BRACKETS[year] has been read
TaxWithBrackets(found, year, income) ==
  IF found.kind = "undefined"
  THEN Throw("Error", <<"Invalid tax year: ">> \o year)
  ELSE IF found.kind = "inherited"
  THEN Throw("TypeError", <<"brackets.findLast is not a function">>)
  ELSE TaxInBracket(found.brackets, FindLast(found.brackets, income), income)

calculateTax(year, income) == TaxWithBrackets(PropertyLookup(year), year, income)

\* TaxResultOf with the subtraction reversed: afterTax = tax - income
TaxResultOf_AfterTaxReversed(year, income, tax) ==
  [year |-> year,
   income |-> income,
   tax |-> tax,
   afterTax |-> FSub(tax, income),
   effectiveRate |-> IF FGt(income, Zero(1))
                     THEN FMul(FDiv(tax, income), FromInt(100))
                     ELSE Zero(1)]

\* TaxResultOf without the income > 0 guard on the division
TaxResultOf_NoZeroGuard(year, income, tax) ==
  [year |-> year,
   income |-> income,
   tax |-> tax,
   afterTax |-> FSub(income, tax),
   effectiveRate |-> FMul(FDiv(tax, income), FromInt(100))]

\* the TaxResult calculateResult builds from the tax
TaxResultOf(year, income, tax) ==
  [year |-> year,
   income |-> income,
   tax |-> tax,
   afterTax |-> FSub(income, tax),
   effectiveRate |-> IF FGt(income, Zero(1))
                     THEN FMul(FDiv(tax, income), FromInt(100))
                     ELSE Zero(1)]

\* calculateResult once calculateTax has returned or thrown
ResultAfter(call, year, income) ==
  IF call.kind = "throw" THEN call
  ELSE Return(TaxResultOf(year, income, call.value))

calculateResult(year, income) == ResultAfter(calculateTax(year, income), year, income)

(***************************************************************************)
(* Number(input): the StringNumericLiteral grammar.  White space is        *)
(* trimmed; the empty string is +0; a binary, octal or hexadecimal integer *)
(* literal carries no sign; a decimal literal is an optional sign, then    *)
(* "Infinity" or digits with an optional fraction and an optional          *)
(* exponent.  Anything else is NaN.                                        *)
(***************************************************************************)
HexDigits == <<"0", "1", "2", "3", "4", "5", "6", "7", "8", "9",
               "a", "b", "c", "d", "e", "f">>

LowerCase(c) ==
  CASE c = "A" -> "a" [] c = "B" -> "b" [] c = "C" -> "c"
    [] c = "D" -> "d" [] c = "E" -> "e" [] c = "F" -> "f"
    [] c = "X" -> "x" [] c = "O" -> "o"
    [] OTHER -> c

\* the value of a digit in the radix, -1 for any other character
DigitValue(c, radix) ==
  LET lc == LowerCase(c)
      hits == {i \in 1..radix : HexDigits[i] = lc}
  IN  IF hits = {} THEN -1 ELSE (CHOOSE i \in hits : TRUE) - 1

AllDigits(str, radix) == \A i \in 1..Len(str) : DigitValue(str[i], radix) >= 0

\* the natural number the digits spell, most significant first
RECURSIVE DigitsToBig(_, _, _)
DigitsToBig(str, radix, acc) ==
  IF str = << >> THEN acc
  ELSE DigitsToBig(Tail(str), radix,
                   BigAdd(BigMulSmall(acc, radix), BigFromInt(DigitValue(str[1], radix))))

\* the digits spell a small natural number; more than four digits count as 9999
SmallNat(str) ==
  LET sig == BigNorm(DigitsToBig(str, 10, << >>))
  IN  IF Len(sig) > 1 \/ (sig # << >> /\ sig[1] > 9999) THEN 9999
      ELSE IF sig = << >> THEN 0 ELSE sig[1]

IndexOf(str, chars) ==
  LET hits == {i \in 1..Len(str) : str[i] \in chars}
  IN  IF hits = {} THEN 0 ELSE CHOOSE i \in hits : \A j \in hits : i <= j

MaxExponent == 1024

\* a finite result whose magnitude reaches 2^MaxExponent is an infinity
Overflowed(x) ==
  IF x.m # << >> /\ x.e + Precision > MaxExponent THEN Infinity(x.s) ELSE x

MaxDecimalExponent == 308

MinDecimalExponent == -324

\* s * N * 10^d for a natural N of the given number of digits.  Beyond the
\* decimal exponents where every value overflows or vanishes the result is
\* the infinity or the zero; the subnormal results (magnitude below
\* 2^-1022) in between are not modelled, and no input of the model reaches
\* them.
DecimalValue(s, N, d, digits) ==
  IF N = << >> THEN Zero(s)
  ELSE IF d > MaxDecimalExponent THEN Infinity(s)
  ELSE IF d + digits < MinDecimalExponent THEN Zero(s)
  ELSE IF d >= 0 THEN Overflowed(RoundToDouble(s, BigMul(N, BigPow10(d)), 0))
  ELSE FromRatio(s, N, BigPow10(0 - d), 0)

\* the exponent part "e[sign]digits" is well formed (or empty)
ExponentOk(expo) ==
  \/ expo = << >>
  \/ /\ Len(expo) >= 2
     /\ IF expo[2] \in {"+", "-"}
        THEN Len(expo) >= 3 /\ AllDigits(SubSeq(expo, 3, Len(expo)), 10)
        ELSE AllDigits(Tail(expo), 10)

\* the value of a well-formed exponent part
ExponentValue(expo) ==
  IF expo = << >> THEN 0
  ELSE IF expo[2] = "-" THEN 0 - SmallNat(SubSeq(expo, 3, Len(expo)))
  ELSE IF expo[2] = "+" THEN SmallNat(SubSeq(expo, 3, Len(expo)))
  ELSE SmallNat(Tail(expo))

\* the significand "digits[.digits]" is well formed: only digits, at least one
MantissaOk(intPart, fracPart) ==
  /\ AllDigits(intPart, 10)
  /\ AllDigits(fracPart, 10)
  /\ intPart \o fracPart # << >>

\* the literal with integer digits intPart, fraction digits fracPart and
\* exponent part expo
DecimalParts(s, intPart, fracPart, expo) ==
  IF ~(MantissaOk(intPart, fracPart) /\ ExponentOk(expo)) THEN NaN
  ELSE DecimalValue(s, BigNorm(DigitsToBig(intPart \o fracPart, 10, << >>)),
                    ExponentValue(expo) - Len(fracPart), Len(intPart \o fracPart))

\* the literal with significand mant and exponent part expo
DecimalMantissa(s, mant, expo, dot) ==
  DecimalParts(s,
               IF dot = 0 THEN mant ELSE SubSeq(mant, 1, dot - 1),
               IF dot = 0 THEN << >> ELSE SubSeq(mant, dot + 1, Len(mant)),
               expo)

\* the literal split at its exponent indicator, at ePos (0: none)
DecimalSplit(s, str, ePos) ==
  DecimalMantissa(s,
                  IF ePos = 0 THEN str ELSE SubSeq(str, 1, ePos - 1),
                  IF ePos = 0 THEN << >> ELSE SubSeq(str, ePos, Len(str)),
                  IndexOf(IF ePos = 0 THEN str ELSE SubSeq(str, 1, ePos - 1), {"."}))

\* an unsigned decimal literal: digits [. digits] [e [sign] digits]
UnsignedDecimal(s, str) == DecimalSplit(s, str, IndexOf(str, {"e", "E"}))

\* the radix the prefix of the trimmed string announces
RadixOf(str) ==
  IF Len(str) < 2 \/ str[1] # "0" THEN 10
  ELSE CASE LowerCase(str[2]) = "x" -> 16
         [] LowerCase(str[2]) = "o" -> 8
         [] LowerCase(str[2]) = "b" -> 2
         [] OTHER -> 10

\* the value of the digits after a 0x, 0o or 0b prefix
PrefixedInteger(digits, radix) ==
  IF digits # << >> /\ AllDigits(digits, radix)
  THEN Overflowed(FromBig(1, BigNorm(DigitsToBig(digits, radix, << >>))))
  ELSE NaN

\* a decimal literal with its optional sign
SignedDecimal(s, body) ==
  IF body = <<"I", "n", "f", "i", "n", "i", "t", "y">> THEN Infinity(s)
  ELSE UnsignedDecimal(s, body)

\* Number(str) for a trimmed string
TrimmedToNumber(str, radix) ==
  IF str = << >> THEN Zero(1)
  ELSE IF radix # 10 THEN PrefixedInteger(SubSeq(str, 3, Len(str)), radix)
  ELSE SignedDecimal(IF str[1] = "-" THEN -1 ELSE 1,
                     IF str[1] \in {"+", "-"} THEN Tail(str) ELSE str)

StringToNumber(str) == TrimmedToNumber(str, RadixOf(str))

ToNumber(input) == StringToNumber(Trim(input))

(***************************************************************************)
(* Validation.                                                             *)
(***************************************************************************)
Success(data) == [success |-> TRUE, data |-> data]

Failure(error) == [success |-> FALSE, error |-> error]

\* /^\d{4}-\d{4}$/.test(input)
YearPattern(input) ==
  /\ Len(input) = 9
  /\ \A i \in {1, 2, 3, 4, 6, 7, 8, 9} : input[i] \in DecimalDigits
  /\ input[5] = "-"

\* validateYear with the format check ahead of the emptiness check
validateYear_FormatFirst(input) ==
  LET availableYears == getAvailableYears
  IN  IF ~YearPattern(input)
      THEN Failure(<<"Year must be in format YYYY-YYYY (e.g., 2023-2024)">>)
      ELSE IF Trim(input) = << >>
      THEN Failure(<<"Year cannot be empty">>)
      ELSE IF ~Includes(availableYears, input)
      THEN Failure(<<"Year \"">> \o input \o <<"\" not available. Choose from: ">>
                   \o Join(availableYears, <<", ">>))
      ELSE Success(input)


\* validateYear accepting every well-formed year, listed or not
validateYear_AcceptsUnlisted(input) ==
  IF Trim(input) = << >>
  THEN Failure(<<"Year cannot be empty">>)
  ELSE IF ~YearPattern(input)
  THEN Failure(<<"Year must be in format YYYY-YYYY (e.g., 2023-2024)">>)
  ELSE Success(input)


validateYear(input) ==
  LET availableYears == getAvailableYears
  IN  IF Trim(input) = << >>
      THEN Failure(<<"Year cannot be empty">>)
      ELSE IF ~YearPattern(input)
      THEN Failure(<<"Year must be in format YYYY-YYYY (e.g., 2023-2024)">>)
      ELSE IF ~Includes(availableYears, input)
      THEN Failure(<<"Year \"">> \o input \o <<"\" not available. Choose from: ">>
                   \o Join(availableYears, <<", ">>))
      ELSE Success(input)

\* 999_999_999.99
MAX_INCOME == DecimalValue(1, DigitsToBig(<<"9", "9", "9", "9", "9", "9", "9", "9", "9", "9", "9">>, 10, << >>), -2, 11)

\* ValidateNumber with the maximum itself rejected
ValidateNumber_MaxExcluded(n) ==
  IF IsNaN(n)
  THEN Failure(<<"Please enter a valid numeric income">>)
  ELSE IF FLt(n, Zero(1))
  THEN Failure(<<"Income cannot be negative">>)
  ELSE IF ~FLt(n, MAX_INCOME)
  THEN Failure(<<"Income exceeds maximum allowed value">>)
  ELSE Success(n)


\* validateIncome once Number(input) has been computed
ValidateNumber(n) ==
  IF IsNaN(n)
  THEN Failure(<<"Please enter a valid numeric income">>)
  ELSE IF FLt(n, Zero(1))
  THEN Failure(<<"Income cannot be negative">>)
  ELSE IF FGt(n, MAX_INCOME)
  THEN Failure(<<"Income exceeds maximum allowed value">>)
  ELSE Success(n)

validateIncome(input) ==
  IF Trim(input) = << >>
  THEN Failure(<<"Income cannot be empty">>)
  ELSE ValidateNumber(ToNumber(input))


(***************************************************************************)
(* State.  op, argYear, argIncome, argInput, ret: one call of a            *)
(* TaxService method and what it returned or threw.  The rest is one       *)
(* execution of TaxCalculator.run(): where it stands (pc), the year and    *)
(* the income its two loops have returned, the calls it has made on its    *)
(* collaborators and the answers it got, in order (events), and what       *)
(* run() settled with (returned).                                          *)
(***************************************************************************)
VARIABLES op, argYear, argIncome, argInput, ret,
          pc, validYear, validIncome, events, returned

callVars == <<op, argYear, argIncome, argInput, ret>>

runVars == <<pc, validYear, validIncome, events, returned>>

vars == <<op, argYear, argIncome, argInput, ret, pc, validYear, validIncome, events, returned>>

NoValue == [kind |-> "none"]

CallIdle ==
  /\ op = "none"
  /\ argYear = << >>
  /\ argIncome = NaN
  /\ argInput = << >>
  /\ ret = NoValue

RunIdle ==
  /\ pc = "idle"
  /\ validYear = << >>
  /\ validIncome = NaN
  /\ events = << >>
  /\ returned = NoValue

(***************************************************************************)
(* Calls of calculateTax and calculateResult.                              *)
(***************************************************************************)
\* the number nearest dollars + cents / 100, as the literal dollars.cents denotes
Dollars(dollars, cents) ==
  IF cents = 0 THEN FromInt(dollars)
  ELSE FromRatio(1, BigAdd(BigMulSmall(BigFromInt(dollars), 100), BigFromInt(cents)),
                 BigFromInt(100), 0)

\* how many dollars around each bracket boundary the incomes cover
Spread == 7

BoundaryDollars == {0, 18200, 45000, 120000, 135000, 180000, 190000, 999999999}

TestDollars == {18000, 20000, 23589, 30000, 50000, 60000, 75000, 80000, 100000, 150000, 200000}

CentsSet == {0, 1, 50, 87, 99}

TaxIncomes ==
  { Dollars(b + k, c) : b \in BoundaryDollars, k \in 0..Spread, c \in CentsSet }
    \cup { Dollars(b - k, c) : b \in BoundaryDollars \ {0}, k \in 1..Spread, c \in CentsSet }
    \cup { Dollars(d, c) : d \in TestDollars, c \in CentsSet }
    \cup { Zero(-1), FromInt(-1), FNeg(Dollars(0, 1)) }

TaxYears ==
  { Y2023_2024, Y2024_2025, <<"2", "0", "2", "2", "-", "2", "0", "2", "3">>, <<"i", "n", "v", "a", "l", "i", "d", "-", "y", "e", "a", "r">>, << >>,
    <<"c", "o", "n", "s", "t", "r", "u", "c", "t", "o", "r">>, <<"t", "o", "S", "t", "r", "i", "n", "g">>, <<"_", "_", "p", "r", "o", "t", "o", "_", "_">> }

InitTax ==
  /\ op = "none"
  /\ argYear \in TaxYears
  /\ argIncome \in TaxIncomes
  /\ argInput = << >>
  /\ ret = NoValue
  /\ RunIdle

CallCalculateTax ==
  /\ op = "none"
  /\ op' = "calculateTax"
  /\ ret' = calculateTax(argYear, argIncome)
  /\ UNCHANGED <<argYear, argIncome, argInput, runVars>>

CallCalculateResult ==
  /\ op = "none"
  /\ op' = "calculateResult"
  /\ ret' = calculateResult(argYear, argIncome)
  /\ UNCHANGED <<argYear, argIncome, argInput, runVars>>

NextTax == CallCalculateTax \/ CallCalculateResult

SpecTax == InitTax /\ [][NextTax]_vars


(***************************************************************************)
(* Calls of validateYear and validateIncome.                               *)
(***************************************************************************)
\* the longest of the strings enumerated over InputAlphabet
MaxInputLen == 3

InputAlphabet == {" ", "-", ".", "0", "1", "5", "e", "x", "a"}

ShortStrings == UNION { [1..n -> InputAlphabet] : n \in 0..MaxInputLen }

SampleStrings ==
  { <<"2", "0", "2", "3", "-", "2", "0", "2", "4">>, <<"2", "0", "2", "4", "-", "2", "0", "2", "5">>, <<"2", "0", "2", "2", "-", "2", "0", "2", "3">>, <<"2", "0", "2", "5", "-", "2", "0", "2", "6">>, <<"0", "0", "0", "0", "-", "0", "0", "0", "0">>,
    <<" ", "2", "0", "2", "3", "-", "2", "0", "2", "4">>, <<"2", "0", "2", "3", "-", "2", "0", "2", "4", " ">>, <<"2", "0", "2", "3", "-", "2", "0", "2", "4", "\n">>, <<"2", "0", "2", "3">>, <<"2", "0", "2", "3", "/", "2", "0", "2", "4">>,
    <<"2", "0", "2", "3", "2", "0", "2", "4">>, <<"2", "0", "2", "3", "-", "2", "0", "2", "4", "5">>, <<"0", "2", "0", "2", "3", "-", "2", "0", "2", "4">>, <<"2", "0", "2", "3", "-", "2", "0", "2">>, <<"2", "o", "2", "3", "-", "2", "0", "2", "4">>,
    <<"i", "n", "v", "a", "l", "i", "d", "-", "y", "e", "a", "r">>, <<"a", "b", "c", "d", "-", "e", "f", "g", "h">>, <<"t", "o", "S", "t", "r", "i", "n", "g">>,
    <<" ", " ", " ">>, <<"\t">>, <<" ", "\n", " ">>,
    <<"5", "0", "0", "0", "0">>, <<" ", " ", "5", "0", "0", "0", "0", " ", " ">>, <<"5", "0", "0", "0", "0", ".", "5", "0">>, <<"5", "0", "0", "0", "0", ".", "5", ".", "0">>, <<"2", "3", "5", "8", "9", ".", "8", "7">>,
    <<"-", "1", "0", "0", "0">>, <<"-", "0", ".", "0", "1">>, <<"-", "0">>, <<"+", "5">>, <<"a", "b", "c">>, <<"1", "2", "a", "b", "c">>, <<"1", ",", "0", "0", "0">>, <<"$", "1", "0", "0">>,
    <<"N", "a", "N">>, <<"I", "n", "f", "i", "n", "i", "t", "y">>, <<"-", "I", "n", "f", "i", "n", "i", "t", "y">>, <<"1", "e", "3">>, <<"1", "E", "3">>, <<"1", "e", "+", "3">>, <<"1", "e", "9">>,
    <<"1", "e", "1", "0">>, <<"1", "e", "3", "0", "9">>, <<"0", "x", "1", "0">>, <<"0", "b", "1", "0", "1">>, <<"0", "o", "1", "7">>,
    <<"9", "9", "9", "9", "9", "9", "9", "9", "9">>, <<"9", "9", "9", "9", "9", "9", "9", "9", "9", ".", "9", "8">>, <<"9", "9", "9", "9", "9", "9", "9", "9", "9", ".", "9", "9">>, <<"9", "9", "9", "9", "9", "9", "9", "9", "9", ".", "9", "9", "0", "0", "0", "0", "0", "1">>,
    <<"9", "9", "9", "9", "9", "9", "9", "9", "9", ".", "9", "9", "0", "0", "0", "0", "1">>, <<"1", "0", "0", "0", "0", "0", "0", "0", "0", "0">>, <<"9", "9", "9", "9", "9", "9", "9", "9", "9", ".", "9", "9", "1">>,
    <<" ", " ", "9", "9", "9", "9", "9", "9", "9", "9", "9", ".", "9", "9", " ">> }

ValidateInputs == ShortStrings \cup SampleStrings

InitValidate ==
  /\ op = "none"
  /\ argYear = << >>
  /\ argIncome = NaN
  /\ argInput \in ValidateInputs
  /\ ret = NoValue
  /\ RunIdle

CallValidateYear ==
  /\ op = "none"
  /\ op' = "validateYear"
  /\ ret' = validateYear(argInput)
  /\ UNCHANGED <<argYear, argIncome, argInput, runVars>>

CallValidateIncome ==
  /\ op = "none"
  /\ op' = "validateIncome"
  /\ ret' = validateIncome(argInput)
  /\ UNCHANGED <<argYear, argIncome, argInput, runVars>>

NextValidate == CallValidateYear \/ CallValidateIncome

SpecValidate == InitValidate /\ [][NextValidate]_vars


(***************************************************************************)
(* TaxCalculator.run().  An event is a call the driver makes on one of its *)
(* collaborators (input.prompt, output.log, taxService.calculateResult,    *)
(* output.showResult) or the answer a prompt resolves with.  The driver    *)
(* runs from one answer to the next without interruption, so a step is     *)
(* everything it does when an answer arrives.                              *)
(***************************************************************************)
YearQuestion == <<"Please enter the income year (e.g., 2023-2024): ">>

IncomeQuestion == <<"Please enter your total taxable income: $">>

PromptEvent(question) == [kind |-> "prompt", question |-> question]

AnswerEvent(question, input) == [kind |-> "answer", question |-> question, input |-> input]

LogEvent(message) == [kind |-> "log", message |-> message]

CalculateEvent(y, x) == [kind |-> "calculateResult", year |-> y, income |-> x]

ShowEvent(r) == [kind |-> "showResult", result |-> r]

\* Retry without the call of output.log
Retry_NoLog(validation, question) == <<PromptEvent(question)>>

\* Retry that logs the error and gives up prompting
Retry_NoPrompt(validation, question) == <<LogEvent(validation.error)>>


\* the rest of a loop iteration after a failed validation, and the start of
\* the next: output.log(validation.error), then the prompt again
Retry(validation, question) == <<LogEvent(validation.error), PromptEvent(question)>>

\* Completion with the result shown twice
Completion_ShowTwice(y, x, call) ==
  <<CalculateEvent(y, x), ShowEvent(call.value), ShowEvent(call.value)>>

\* run() from the call of calculateResult on: the call, then, when it
\* returned, output.showResult(result)
Completion(y, x, call) ==
  IF call.kind = "throw" THEN <<CalculateEvent(y, x)>>
  ELSE <<CalculateEvent(y, x), ShowEvent(call.value)>>

\* how many answers one execution is followed for
MaxInputs == 4

DriverInputs ==
  { <<>>, <<"a", "b", "c">>, <<"i", "n", "v", "a", "l", "i", "d", "-", "y", "e", "a", "r">>, <<"2", "0", "2", "2", "-", "2", "0", "2", "3">>, <<"2", "0", "2", "3", "-", "2", "0", "2", "4">>, <<"2", "0", "2", "4", "-", "2", "0", "2", "5">>,
    <<"-", "1", "0", "0", "0">>, <<"0">>, <<"5", "0", "0", "0", "0">>, <<"1", "0", "0", "0", "0", "0", "0", "0", "0", "0">> }

NumAnswers == Cardinality({i \in DOMAIN events : events[i].kind = "answer"})

Init ==
  /\ CallIdle
  /\ pc = "run"
  /\ validYear = << >>
  /\ validIncome = NaN
  /\ events = << >>
  /\ returned = NoValue

\* run() up to the first await: getValidYear() issues its first prompt
Run ==
  /\ pc = "run"
  /\ pc' = "awaitYear"
  /\ events' = Append(events, PromptEvent(YearQuestion))
  /\ UNCHANGED <<validYear, validIncome, returned, callVars>>

\* getValidYear() once its prompt has resolved with input; on success run()
\* goes on to getValidIncome(), which issues its first prompt
YearAnswered(input, validation) ==
  IF validation.success
  THEN /\ pc' = "awaitIncome"
       /\ validYear' = validation.data
       /\ events' = events \o <<AnswerEvent(YearQuestion, input),
                                PromptEvent(IncomeQuestion)>>
  ELSE /\ pc' = "awaitYear"
       /\ validYear' = validYear
       /\ events' = events \o <<AnswerEvent(YearQuestion, input)>>
                           \o Retry(validation, YearQuestion)

YearAnswer ==
  /\ pc = "awaitYear"
  /\ NumAnswers < MaxInputs
  /\ \E input \in DriverInputs : YearAnswered(input, validateYear(input))
  /\ UNCHANGED <<validIncome, returned, callVars>>

\* run() once getValidIncome() has returned x: calculateResult, showResult,
\* return; a throw of calculateResult rejects the promise of run()
Finished(input, x, call) ==
  /\ pc' = IF call.kind = "throw" THEN "failed" ELSE "done"
  /\ validIncome' = x
  /\ events' = events \o <<AnswerEvent(IncomeQuestion, input)>> \o Completion(validYear, x, call)
  /\ returned' = call

\* getValidIncome() once its prompt has resolved with input
IncomeAnswered(input, validation) ==
  IF validation.success
  THEN Finished(input, validation.data, calculateResult(validYear, validation.data))
  ELSE /\ pc' = "awaitIncome"
       /\ validIncome' = validIncome
       /\ events' = events \o <<AnswerEvent(IncomeQuestion, input)>>
                           \o Retry(validation, IncomeQuestion)
       /\ returned' = returned

IncomeAnswer ==
  /\ pc = "awaitIncome"
  /\ NumAnswers < MaxInputs
  /\ \E input \in DriverInputs : IncomeAnswered(input, validateIncome(input))
  /\ UNCHANGED <<validYear, callVars>>

Next == Run \/ YearAnswer \/ IncomeAnswer

Spec == Init /\ [][Next]_vars


(***************************************************************************)
(* Exact (real-number) arithmetic for stating the claims: a signed value   *)
(* [s, M] * 2^E with M an arbitrary-precision natural.                     *)
(***************************************************************************)
SupportedYear(y) == y \in DOMAIN BracketRows

\* 0 <= x <= 999,999,999.99
ValidIncome(x) == ~IsNaN(x) /\ ~FLt(x, Zero(1)) /\ ~FGt(x, MAX_INCOME)

\* the index of the last row of the year whose lower bound is strictly below x, 0 if none
SelectedRow(y, x) ==
  LET below == {i \in 1..Len(BracketRows[y]) : FLt(FromInt(BracketRows[y][i].min), x)}
  IN  IF below = {} THEN 0 ELSE CHOOSE i \in below : \A j \in below : j <= i

\* floor(100 * (base + (x - min) * rate) + 1/2) for the row and a finite x > min:
\* the tax in cents, rounded half-up, computed without rounding error
ExactCents(row, x) ==
  LET K == BigShl(BigOne, IF x.e < 0 THEN 0 - x.e ELSE 0)
      X == BigShl(x.m, IF x.e > 0 THEN x.e ELSE 0)
      P == BigPow10(row.rate[2])
      PK == BigMul(P, K)
      over == BigSub(X, BigMul(BigFromInt(row.min), K))
      num == BigAdd(BigAdd(BigMul(BigFromInt(200 * row.base), PK),
                           BigMul(over, BigFromInt(200 * row.rate[1]))),
                    PK)
  IN  BigDivMod(num, BigMulSmall(PK, 2)).q

\* the number nearest cents / 100
FromCents(cents) ==
  IF cents = << >> THEN Zero(1) ELSE FromRatio(1, cents, BigFromInt(100), 0)

ExpectedTax(y, x) ==
  LET i == SelectedRow(y, x)
  IN  IF i = 0 THEN Zero(1) ELSE FromCents(ExactCents(BracketRows[y][i], x))

\* C1: for a supported year and an income in [0, 999,999,999.99] calculateTax
\* returns base + (income - lowerBound) * rate of the last bracket whose lower
\* bound is strictly below the income, rounded half-up to the cent, and 0 when
\* there is no such bracket.
C1_TaxIsHalfUpRounded ==
  (op = "calculateTax" /\ SupportedYear(argYear) /\ ValidIncome(argIncome))
    => ret = Return(ExpectedTax(argYear, argIncome))

\* the tax-free threshold
Threshold == 18200

\* C2: for a supported year and 0 <= income <= 18,200 calculateTax returns exactly 0.
C2_ZeroUpToThreshold ==
  (/\ op = "calculateTax"
   /\ SupportedYear(argYear)
   /\ ValidIncome(argIncome)
   /\ ~FGt(argIncome, FromInt(Threshold)))
    => ret = Return(Zero(1))

C2_Witness ==
  /\ op = "calculateTax"
  /\ argYear = Y2024_2025
  /\ argIncome = FromInt(Threshold)
  /\ ret = Return(Zero(1))

\* C3: calculateTax fails with "Invalid tax year: <year>" for every year that
\* is not a key of the bracket table, whatever the income, and never fails
\* for a key of the table.
C3_InvalidYearError ==
  op = "calculateTax" =>
    IF SupportedYear(argYear)
    THEN ret.kind = "return"
    ELSE ret = Throw("Error", <<"Invalid tax year: ">> \o argYear)


\* the string is empty or white space only
Blank(str) == \A i \in 1..Len(str) : str[i] \in WhiteSpace

\* four digits, a hyphen, four digits, and nothing else
WellFormedYear(str) ==
  /\ Len(str) = 9
  /\ str[5] = "-"
  /\ \A i \in (1..4) \cup (6..9) : str[i] \in DecimalDigits

Listed(str) == \E i \in 1..Len(getAvailableYears) : getAvailableYears[i] = str

\* C4: validateYear answers 'Year cannot be empty' for an empty or blank
\* input, else the format message for an input that is not four digits, a
\* hyphen, four digits, else an error naming the input and listing the
\* available years comma-joined in table order for an unlisted year, else
\* success with the input unchanged; it succeeds exactly for the strings
\* getAvailableYears() returns.
C4_ValidateYearChecks ==
  op = "validateYear" =>
    /\ ret = IF Blank(argInput)
             THEN Failure(<<"Year cannot be empty">>)
             ELSE IF ~WellFormedYear(argInput)
             THEN Failure(<<"Year must be in format YYYY-YYYY (e.g., 2023-2024)">>)
             ELSE IF ~Listed(argInput)
             THEN Failure(<<"Year \"">> \o argInput
                          \o <<"\" not available. Choose from: ">>
                          \o <<"2", "0", "2", "3", "-", "2", "0", "2", "4">> \o <<", ">> \o <<"2", "0", "2", "4", "-", "2", "0", "2", "5">>)
             ELSE Success(argInput)
    /\ ret.success <=> Listed(argInput)

C4_Witness ==
  /\ op = "validateYear"
  /\ argInput = <<"2", "0", "2", "2", "-", "2", "0", "2", "3">>
  /\ ret = Failure(<<"Year \"">> \o <<"2", "0", "2", "2", "-", "2", "0", "2", "3">>
                   \o <<"\" not available. Choose from: ">>
                   \o <<"2", "0", "2", "3", "-", "2", "0", "2", "4">> \o <<", ">> \o <<"2", "0", "2", "4", "-", "2", "0", "2", "5">>)

\* C5: validateIncome answers 'Income cannot be empty' for an input that is
\* empty once trimmed, else 'Please enter a valid numeric income' when
\* Number(input) is NaN, else 'Income cannot be negative' for a value below
\* 0, else 'Income exceeds maximum allowed value' for a value above
\* 999,999,999.99, else success with the parsed number; it succeeds exactly
\* when the input is not blank and its value v has 0 <= v <= 999,999,999.99,
\* and the value of a success is in that range.
C5_ValidateIncomeChecks ==
  op = "validateIncome" =>
    /\ ret = IF Blank(argInput)
             THEN Failure(<<"Income cannot be empty">>)
             ELSE IF IsNaN(ToNumber(argInput))
             THEN Failure(<<"Please enter a valid numeric income">>)
             ELSE IF FLt(ToNumber(argInput), Zero(1))
             THEN Failure(<<"Income cannot be negative">>)
             ELSE IF FGt(ToNumber(argInput), MAX_INCOME)
             THEN Failure(<<"Income exceeds maximum allowed value">>)
             ELSE Success(ToNumber(argInput))
    /\ ret.success <=> (~Blank(argInput) /\ ValidIncome(ToNumber(argInput)))
    /\ ret.success => ValidIncome(ret.data)

C5_Witness ==
  /\ op = "validateIncome"
  /\ argInput = <<" ", " ", "9", "9", "9", "9", "9", "9", "9", "9", "9", ".", "9", "9", " ">>
  /\ ret = Success(MAX_INCOME)


\* [s, M] with s * M = u.s * u.M + v.s * v.M
SignedAdd(u, v) ==
  IF u.M = << >> THEN v
  ELSE IF v.M = << >> THEN u
  ELSE IF u.s = v.s THEN [s |-> u.s, M |-> BigAdd(u.M, v.M)]
  ELSE IF BigCmp(u.M, v.M) >= 0 THEN [s |-> u.s, M |-> BigSub(u.M, v.M)]
  ELSE [s |-> v.s, M |-> BigSub(v.M, u.M)]

MinOf(S) == CHOOSE n \in S : \A k \in S : n <= k

\* |a + b - c| < 1 / per for finite numbers a, b, c, without rounding error
SumWithin(a, b, c, per) ==
  LET E == MinOf({a.e, b.e, c.e, 0})
      Sig(x, s) == [s |-> s, M |-> BigShl(x.m, x.e - E)]
      D == SignedAdd(SignedAdd(Sig(a, a.s), Sig(b, b.s)), Sig(c, 0 - c.s))
  IN  BigCmp(BigMulSmall(D.M, per), BigShl(BigOne, 0 - E)) < 0

\* C6 as stated: for a supported year and a valid income calculateResult
\* returns a record with afterTax + tax == income, tax being the value of
\* calculateTax, and year and income echoed.
C6_SumIsIncome ==
  (op = "calculateResult" /\ SupportedYear(argYear) /\ ValidIncome(argIncome))
    => /\ ret.kind = "return"
       /\ ret.value.year = argYear
       /\ ret.value.income = argIncome
       /\ Return(ret.value.tax) = calculateTax(argYear, argIncome)
       /\ FEq(FAdd(ret.value.afterTax, ret.value.tax), ret.value.income)

\* half a cent, as one part in HalfCentPer of a dollar
HalfCentPer == 200

\* C6 amended: afterTax + tax differs from income by less than half a cent,
\* tax being the value of calculateTax, and year and income echoed.
C6_SumWithinHalfCent ==
  (op = "calculateResult" /\ SupportedYear(argYear) /\ ValidIncome(argIncome))
    => /\ ret.kind = "return"
       /\ ret.value.year = argYear
       /\ ret.value.income = argIncome
       /\ Return(ret.value.tax) = calculateTax(argYear, argIncome)
       /\ SumWithin(ret.value.afterTax, ret.value.tax, ret.value.income, HalfCentPer)

C6_Witness ==
  /\ op = "calculateResult"
  /\ argYear = Y2023_2024
  /\ argIncome = Dollars(23589, 87)
  /\ ret.kind = "return"
  /\ ~FEq(FAdd(ret.value.afterTax, ret.value.tax), ret.value.income)
  /\ SumWithin(ret.value.afterTax, ret.value.tax, ret.value.income, HalfCentPer)

\* C7: calculateResult returns effectiveRate 0 when income is 0, and
\* tax / income * 100 of the returned (rounded) tax when income > 0.
C7_EffectiveRate ==
  (op = "calculateResult" /\ ret.kind = "return")
    => /\ IsZero(ret.value.income) => ret.value.effectiveRate = Zero(1)
       /\ FGt(ret.value.income, Zero(1)) =>
            ret.value.effectiveRate
              = FMul(FDiv(ret.value.tax, ret.value.income), FromInt(100))

C7_Witness ==
  /\ op = "calculateResult"
  /\ argYear = Y2023_2024
  /\ argIncome = Zero(1)
  /\ ret = Return([year |-> Y2023_2024, income |-> Zero(1), tax |-> Zero(1),
                   afterTax |-> Zero(1), effectiveRate |-> Zero(1)])

\* the events of a kind, as the set of their positions
EventsOf(kind) == {i \in DOMAIN events : events[i].kind = kind}

PromptsOf(question) == {i \in EventsOf("prompt") : events[i].question = question}

\* the answers given to a question, in order
InputsTo(question) ==
  LET answers == SelectSeq(events, LAMBDA e : e.kind = "answer" /\ e.question = question)
  IN  [i \in 1..Len(answers) |-> answers[i].input]

\* every answer, in order
AllInputs ==
  LET answers == SelectSeq(events, LAMBDA e : e.kind = "answer")
  IN  [i \in 1..Len(answers) |-> answers[i].input]

\* the messages logged, in order
LogMessages ==
  LET logged == SelectSeq(events, LAMBDA e : e.kind = "log")
  IN  [i \in 1..Len(logged) |-> logged[i].message]

\* the validation the driver applies to an answer
ValidationOf(e) ==
  IF e.question = YearQuestion THEN validateYear(e.input) ELSE validateIncome(e.input)

\* the validation errors of the rejected answers, in order
RejectionErrors ==
  LET rejected == SelectSeq(events, LAMBDA e : e.kind = "answer" /\ ~ValidationOf(e).success)
  IN  [i \in 1..Len(rejected) |-> ValidationOf(rejected[i]).error]

\* the first position of the sequence holding TRUE, 0 if there is none
FirstTrue(flags) ==
  IF \A i \in 1..Len(flags) : ~flags[i] THEN 0
  ELSE CHOOSE i \in 1..Len(flags) : flags[i] /\ \A j \in 1..(i - 1) : ~flags[j]

YearPasses == [i \in 1..Len(InputsTo(YearQuestion)) |->
                 validateYear(InputsTo(YearQuestion)[i]).success]

IncomePasses == [i \in 1..Len(InputsTo(IncomeQuestion)) |->
                   validateIncome(InputsTo(IncomeQuestion)[i]).success]

\* C8: each loop consumes inputs up to and including the first one that
\* passes validation and returns its validated value; it has issued one
\* prompt per input consumed (and one more while it waits); output.log has
\* been called once per rejected input, in order, with that input's
\* validation error, and not for an accepted input; so the inputs
\* "invalid-year", "2023-2024", "abc", "50000" leave exactly two messages.
C8_LoopsReturnFirstValid ==
  /\ LogMessages = RejectionErrors
  /\ pc = "awaitYear" =>
       /\ FirstTrue(YearPasses) = 0
       /\ Cardinality(PromptsOf(YearQuestion)) = Len(YearPasses) + 1
  /\ pc \in {"awaitIncome", "done", "failed"} =>
       /\ Len(YearPasses) > 0
       /\ FirstTrue(YearPasses) = Len(YearPasses)
       /\ validYear = InputsTo(YearQuestion)[Len(YearPasses)]
       /\ Cardinality(PromptsOf(YearQuestion)) = Len(YearPasses)
  /\ pc = "awaitIncome" =>
       /\ FirstTrue(IncomePasses) = 0
       /\ Cardinality(PromptsOf(IncomeQuestion)) = Len(IncomePasses) + 1
  /\ pc \in {"done", "failed"} =>
       /\ Len(IncomePasses) > 0
       /\ FirstTrue(IncomePasses) = Len(IncomePasses)
       /\ Success(validIncome) = validateIncome(InputsTo(IncomeQuestion)[Len(IncomePasses)])
       /\ Cardinality(PromptsOf(IncomeQuestion)) = Len(IncomePasses)
  /\ AllInputs = <<<<"i", "n", "v", "a", "l", "i", "d", "-", "y", "e", "a", "r">>, <<"2", "0", "2", "3", "-", "2", "0", "2", "4">>, <<"a", "b", "c">>, <<"5", "0", "0", "0", "0">>>> =>
       /\ pc = "done"
       /\ Len(LogMessages) = 2

C8_Witness ==
  /\ pc = "done"
  /\ AllInputs = <<<<"i", "n", "v", "a", "l", "i", "d", "-", "y", "e", "a", "r">>, <<"2", "0", "2", "3", "-", "2", "0", "2", "4">>, <<"a", "b", "c">>, <<"5", "0", "0", "0", "0">>>>
  /\ LogMessages = << <<"Year must be in format YYYY-YYYY (e.g., 2023-2024)">>,
                      <<"Please enter a valid numeric income">> >>
  /\ validYear = <<"2", "0", "2", "3", "-", "2", "0", "2", "4">>
  /\ validIncome = FromInt(50000)

\* C9: in every execution of run() every year prompt precedes every income
\* prompt, every prompt and answer precedes the call of calculateResult,
\* which precedes the call of showResult; there is at most one of each, and
\* exactly one once run() has settled; the call carries the accepted year
\* and income, showResult gets the result calculateResult returned, and
\* run() returns that same result.
C9_RunOrder ==
  /\ \A i \in PromptsOf(YearQuestion), j \in PromptsOf(IncomeQuestion) : i < j
  /\ \A i \in EventsOf("prompt") \cup EventsOf("answer") \cup EventsOf("log"),
        j \in EventsOf("calculateResult") : i < j
  /\ \A i \in EventsOf("calculateResult"), j \in EventsOf("showResult") : i < j
  /\ Cardinality(EventsOf("calculateResult")) <= 1
  /\ Cardinality(EventsOf("showResult")) <= 1
  /\ \A i \in EventsOf("calculateResult") :
       /\ events[i].year = validYear
       /\ events[i].income = validIncome
       /\ Success(validYear) = validateYear(InputsTo(YearQuestion)[Len(InputsTo(YearQuestion))])
       /\ Success(validIncome)
            = validateIncome(InputsTo(IncomeQuestion)[Len(InputsTo(IncomeQuestion))])
  /\ \A j \in EventsOf("showResult") :
       /\ EventsOf("calculateResult") # {}
       /\ Return(events[j].result) = calculateResult(validYear, validIncome)
       /\ returned = Return(events[j].result)
  /\ (returned # NoValue \/ pc \in {"done", "failed"}) =>
       /\ pc = "done"
       /\ returned.kind = "return"
       /\ Cardinality(EventsOf("calculateResult")) = 1
       /\ Cardinality(EventsOf("showResult")) = 1

C9_Witness ==
  /\ pc = "done"
  /\ Len(events) = 6
  /\ events[5] = CalculateEvent(<<"2", "0", "2", "4", "-", "2", "0", "2", "5">>, FromInt(50000))
  /\ events[6] = ShowEvent(returned.value)
  /\ returned.value.year = <<"2", "0", "2", "4", "-", "2", "0", "2", "5">>
  /\ returned.value.tax = FromInt(5788)


\* a number of dollars as a whole number of cents
InCents(x) == MathRound(FMul(x, FromInt(100)))

\* C10: for every supported year and every bracket but the first, the base is
\* the tax accumulated over the lower brackets at the bracket's lower bound,
\* so calculateTax at the lower bound is the base, and one cent above the
\* bound it is at most one cent more.
C10_ContinuousAtBoundaries ==
  (op = "calculateTax" /\ SupportedYear(argYear)) =>
    \A i \in 2..Len(BracketRows[argYear]) :
      LET row == BracketRows[argYear][i]
          prev == BracketRows[argYear][i - 1]
          scale == 10 ^ prev.rate[2]
      IN  /\ argIncome = FromInt(row.min) =>
               /\ row.base * scale
                    = prev.base * scale + (row.min - prev.min) * prev.rate[1]
               /\ ret = Return(FromInt(row.base))
          /\ argIncome = Dollars(row.min, 1) =>
               /\ ret.kind = "return"
               /\ ~FGt(FSub(InCents(ret.value),
                            InCents(calculateTax(argYear, FromInt(row.min)).value)),
                       FromInt(1))


\* an answer to the question before position i passed validation with value v
AcceptedBefore(i, question, v) ==
  \E j \in 1..(i - 1) :
    /\ events[j].kind = "answer"
    /\ events[j].question = question
    /\ ValidationOf(events[j]) = Success(v)

\* C11: in every execution of the driver calculateResult is called only after
\* a year and an income have passed validation, with a year that is a key of
\* the bracket table and an income in [0, 999,999,999.99]; the call never
\* throws, and no result is shown or returned before both inputs were
\* accepted.
C11_CalculatesOnlyValidated ==
  /\ \A i \in EventsOf("calculateResult") :
       /\ SupportedYear(events[i].year)
       /\ ValidIncome(events[i].income)
       /\ AcceptedBefore(i, YearQuestion, events[i].year)
       /\ AcceptedBefore(i, IncomeQuestion, events[i].income)
       /\ calculateTax(events[i].year, events[i].income).kind = "return"
  /\ \A i \in EventsOf("showResult") :
       /\ AcceptedBefore(i, YearQuestion, events[i].result.year)
       /\ AcceptedBefore(i, IncomeQuestion, events[i].result.income)
  /\ pc # "failed"
  /\ returned.kind # "throw"
  /\ returned # NoValue =>
       /\ AcceptedBefore(Len(events), YearQuestion, returned.value.year)
       /\ AcceptedBefore(Len(events), IncomeQuestion, returned.value.income)

C11_Witness ==
  /\ pc = "done"
  /\ AllInputs = <<<<"2", "0", "2", "2", "-", "2", "0", "2", "3">>, <<"2", "0", "2", "3", "-", "2", "0", "2", "4">>, <<"1", "0", "0", "0", "0", "0", "0", "0", "0", "0">>, <<"0">>>>
  /\ returned.kind = "return"
  /\ returned.value.income = Zero(1)


\* the TaxResult for year 2023-2024 and income 50,000: tax 6,717, afterTax
\* 43,283, effectiveRate 13.434
ScenarioResult ==
  [year |-> Y2023_2024,
   income |-> FromInt(50000),
   tax |-> FromInt(6717),
   afterTax |-> FromInt(43283),
   effectiveRate |-> Literal(13434, 3)]

C13_ShiftedBoundaries ==
  op = "calculateTax" =>
    /\ getAvailableYears = <<<<"2", "0", "2", "2", "-", "2", "0", "2", "3">>,
                             Y2023_2024, Y2024_2025,
                             <<"2", "0", "2", "5", "-", "2", "0", "2", "6">> >>
    /\ argYear = <<"2", "0", "2", "2", "-", "2", "0", "2", "3">> => ret.kind = "return"
    /\ argYear = Y2023_2024 =>
         /\ argIncome = FromInt(20000) => ret = Return(Literal(34181, 2))
         /\ argIncome = FromInt(50000) => ret = Return(Literal(671668, 2))
         /\ argIncome = FromInt(45000) => ret = Return(Literal(509181, 2))

\* the brackets of the table that hold x: lower bound < x <= upper bound
BracketsHolding(brackets, x) ==
  {i \in 1..Len(brackets) : FLt(brackets[i].min, x) /\ ~FGt(x, brackets[i].max)}

\* first lower bound 0, lower bounds strictly ascending, each upper bound the
\* next lower bound, the last upper bound, and only it, unbounded
Contiguous(brackets) ==
  /\ Len(brackets) > 0
  /\ brackets[1].min = Zero(1)
  /\ \A i \in 1..(Len(brackets) - 1) :
       /\ FLt(brackets[i].min, brackets[i + 1].min)
       /\ brackets[i].max = brackets[i + 1].min
       /\ ~IsInf(brackets[i].max)
  /\ brackets[Len(brackets)].max = Infinity(1)

\* C14: every year's bracket table is contiguous and exhaustive, so every
\* income > 0 lies in exactly one bracket, and calculateTax returns the tax
\* of that bracket.
C14_OneBracketPerIncome ==
  /\ \A y \in DOMAIN TAX_BRACKETS : Contiguous(TAX_BRACKETS[y])
  /\ (op = "calculateTax" /\ SupportedYear(argYear) /\ FGt(argIncome, Zero(1))) =>
       /\ Cardinality(BracketsHolding(TAX_BRACKETS[argYear], argIncome)) = 1
       /\ \A i \in BracketsHolding(TAX_BRACKETS[argYear], argIncome) :
            ret = Return(RoundToCents(BracketTax(TAX_BRACKETS[argYear][i], argIncome)))

C14_Witness ==
  /\ op = "calculateTax"
  /\ argYear = Y2024_2025
  /\ argIncome = FromInt(135000)
  /\ BracketsHolding(TAX_BRACKETS[argYear], argIncome) = {3}
  /\ ret = Return(FromInt(31288))


\* calculateTax on every supported year and every valid income of TaxIncomes
TaxTable ==
  { [year |-> y, income |-> x, call |-> calculateTax(y, x)] :
      y \in DOMAIN BracketRows, x \in {v \in TaxIncomes : ValidIncome(v)} }

\* C16: for every supported year, calculateTax is non-decreasing in income
\* over [0, 999,999,999.99]: the tax of an income is at least the tax of
\* every income that is not above it, across bracket bounds and after the
\* rounding to the cent.
C16_MonotoneInIncome ==
  (op = "calculateTax" /\ SupportedYear(argYear) /\ ValidIncome(argIncome)) =>
    /\ ret.kind = "return"
    /\ \A r \in TaxTable :
         (r.year = argYear /\ ~FGt(r.income, argIncome)) =>
           /\ r.call.kind = "return"
           /\ ~FGt(r.call.value, ret.value)

\* one cent above the 135,000 bound of 2024-2025 the tax is above the tax at the bound
C16_Witness ==
  /\ op = "calculateTax"
  /\ argYear = Y2024_2025
  /\ argIncome = Dollars(135000, 1)
  /\ ret = Return(FromInt(31388))
  /\ \E r \in TaxTable :
       /\ r.year = argYear
       /\ r.income = FromInt(135000)
       /\ FLt(r.call.value, ret.value)


\* 0 <= x <= bound on numbers
Between(x, bound) == ~IsNaN(x) /\ ~FLt(x, Zero(1)) /\ ~FGt(x, bound)

\* C17: for every supported year and every income validateIncome accepts
\* (a number with 0 <= income <= 999,999,999.99), 0 <= calculateTax <= income,
\* and the TaxResult of calculateResult has 0 <= afterTax <= income and
\* 0 <= effectiveRate <= 100.
C17_TaxWithinIncome ==
  (SupportedYear(argYear) /\ ValidIncome(argIncome)) =>
    /\ op = "calculateTax" =>
         /\ ret.kind = "return"
         /\ Between(ret.value, argIncome)
    /\ op = "calculateResult" =>
         /\ ret.kind = "return"
         /\ Between(ret.value.tax, argIncome)
         /\ Between(ret.value.afterTax, argIncome)
         /\ Between(ret.value.effectiveRate, FromInt(100))

\* the largest accepted income, taxed at more than 44 percent
C17_Witness ==
  /\ op = "calculateResult"
  /\ argYear = Y2023_2024
  /\ argIncome = MAX_INCOME
  /\ ret.kind = "return"
  /\ FGt(ret.value.tax, Zero(1))
  /\ FGt(ret.value.afterTax, ret.value.tax)
  /\ FGt(ret.value.effectiveRate, FromInt(44))


(***************************************************************************)
(* TaxCalculator.run() with an input provider that resolves every prompt   *)
(* and keeps a valid answer on offer.  Only the rejected answers are       *)
(* counted against a bound; a valid answer is always possible.             *)
(***************************************************************************)
\* how many rejected answers one execution is followed for
MaxRejections == 3

NumRejections == Cardinality({i \in DOMAIN events : events[i].kind = "log"})

LiveInputs ==
  { <<"a", "b", "c">>, <<"2", "0", "2", "3", "-", "2", "0", "2", "4">>,
    <<"-", "1", "0", "0", "0">>, <<"5", "0", "0", "0", "0">> }

\* what the service answers on each of the provider's inputs, tabulated
LiveAnswers ==
  { [input |-> i, year |-> validateYear(i), income |-> validateIncome(i)] :
      i \in LiveInputs }

LiveYearValidation ==
  [input \in LiveInputs |-> (CHOOSE a \in LiveAnswers : a.input = input).year]

LiveIncomeValidation ==
  [input \in LiveInputs |-> (CHOOSE a \in LiveAnswers : a.input = input).income]

LiveYears == {a.year.data : a \in {b \in LiveAnswers : b.year.success}}

LiveIncomes == {a.income.data : a \in {b \in LiveAnswers : b.income.success}}

\* what calculateResult returns on each validated pair, tabulated
LiveResults ==
  { [year |-> y, income |-> x, result |-> calculateResult(y, x)] :
      y \in LiveYears, x \in LiveIncomes }

LiveResult ==
  [call \in LiveYears \X LiveIncomes |->
     (CHOOSE r \in LiveResults : r.year = call[1] /\ r.income = call[2]).result]

ValidYearAnswer ==
  /\ pc = "awaitYear"
  /\ \E input \in LiveInputs :
       /\ LiveYearValidation[input].success
       /\ YearAnswered(input, LiveYearValidation[input])
  /\ UNCHANGED <<validIncome, returned, callVars>>

RejectedYearAnswer ==
  /\ pc = "awaitYear"
  /\ NumRejections < MaxRejections
  /\ \E input \in LiveInputs :
       /\ ~LiveYearValidation[input].success
       /\ YearAnswered(input, LiveYearValidation[input])
  /\ UNCHANGED <<validIncome, returned, callVars>>

ValidIncomeAnswer ==
  /\ pc = "awaitIncome"
  /\ \E input \in LiveInputs :
       /\ LiveIncomeValidation[input].success
       /\ Finished(input, LiveIncomeValidation[input].data,
                   LiveResult[<<validYear, LiveIncomeValidation[input].data>>])
  /\ UNCHANGED <<validYear, callVars>>

RejectedIncomeAnswer ==
  /\ pc = "awaitIncome"
  /\ NumRejections < MaxRejections
  /\ \E input \in LiveInputs :
       /\ ~LiveIncomeValidation[input].success
       /\ IncomeAnswered(input, LiveIncomeValidation[input])
  /\ UNCHANGED <<validYear, callVars>>

NextLive ==
  \/ Run
  \/ ValidYearAnswer
  \/ RejectedYearAnswer
  \/ ValidIncomeAnswer
  \/ RejectedIncomeAnswer

\* run() is started, and the provider eventually supplies a valid year and
\* then a valid income
SpecLive ==
  /\ Init
  /\ [][NextLive]_vars
  /\ WF_vars(Run)
  /\ WF_vars(ValidYearAnswer)
  /\ WF_vars(ValidIncomeAnswer)

\* C15: the loops never abort: while run() waits for a year or an income,
\* whatever the number of rejected inputs so far, its last act was the
\* prompt for it and it has produced no result; run() ends or produces a
\* result only after a valid year and a valid income were supplied; and when the provider
\* resolves every prompt and eventually supplies a valid year and then a
\* valid income, run() eventually calls showResult and terminates.
C15_RetriesUntilValid ==
  /\ [](/\ pc = "awaitYear" =>
             /\ events[Len(events)] = PromptEvent(YearQuestion)
             /\ returned = NoValue
             /\ EventsOf("showResult") = {}
        /\ pc = "awaitIncome" =>
             /\ events[Len(events)] = PromptEvent(IncomeQuestion)
             /\ returned = NoValue
             /\ EventsOf("showResult") = {}
        /\ (pc \in {"done", "failed"} \/ returned # NoValue
                                       \/ EventsOf("showResult") # {}) =>
             /\ \E i \in 1..Len(InputsTo(YearQuestion)) :
                  LiveYearValidation[InputsTo(YearQuestion)[i]].success
             /\ \E i \in 1..Len(InputsTo(IncomeQuestion)) :
                  LiveIncomeValidation[InputsTo(IncomeQuestion)[i]].success)
  /\ <>(pc = "done" /\ EventsOf("showResult") # {} /\ returned.kind = "return")

C15_Witness ==
  /\ pc = "done"
  /\ Len(LogMessages) = 3
  /\ EventsOf("showResult") # {}

====
